---- MODULE Spec2Model ----
(***************************************************************************)
(* Model of the idb-next adapter's bulkDocs (src/adapters/idb-next/        *)
(* bulkDocs.js) and getAttachment.                                         *)
(*                                                                         *)
(* A revision id is modelled as the path of tokens from its generation-1   *)
(* ancestor: <<1>> is "1-<1>", <<1,2>> is the generation-2 revision whose  *)
(* parent is <<1>>.  Its generation is its length.  Revision ids are       *)
(* hashes in the program, so two different paths never carry the same id.  *)
(*                                                                         *)
(* A revision forest is a function from the revisions it holds to          *)
(* [status, root]; root marks the head of a branch of the forest (a node   *)
(* that is not attached to a parent node).                                 *)
(***************************************************************************)
EXTENDS Integers, Sequences, FiniteSets, TLC

\* ------------------------------------------------------------------ bounds
MaxCalls == 2     \* bulkDocs calls of a run
MaxDocs == 3      \* documents handed to bulkDocs over a run
MaxBatch == 2     \* documents of one call

Ids == {"x", "y"}
\* what a document carries as attachment: nothing, a decodable payload, an
\* undecodable one, or a stub
AttKinds == {"none", "good", "bad", "stub"}
\* the revisions submitted: two roots, two children of the first root and
\* a grandchild
Revisions == {<<1>>, <<2>>, <<1, 1>>, <<1, 2>>, <<1, 1, 1>>}
\* api.metaData.revsLimit of the database of the run
RevsLimit == 2

\* ------------------------------------------------------- revision helpers
NoRev == << >>

Gen(r) == Len(r)

Parent(r) == SubSeq(r, 1, Len(r) - 1)

IsPrefix(p, r) == Len(p) <= Len(r) /\ SubSeq(r, 1, Len(p)) = p

\* order of revision ids: by generation first, then by id
RevLess(a, b) ==
  \/ Len(a) < Len(b)
  \/ /\ Len(a) = Len(b)
     /\ \E k \in 1..Len(a) : /\ a[k] < b[k]
                             /\ \A j \in 1..(k - 1) : a[j] = b[j]

MaxRev(S) == CHOOSE r \in S : \A q \in S : q = r \/ RevLess(q, r)
MinRev(S) == CHOOSE r \in S : \A q \in S : q = r \/ RevLess(r, q)

\* ------------------------------------------------------- forest helpers
EmptyTree == << >>

Children(t, r) ==
  {c \in DOMAIN t : Len(c) = Len(r) + 1 /\ Parent(c) = r /\ ~t[c].root}

Leaves(t) == {r \in DOMAIN t : Children(t, r) = {}}

Roots(t) == {r \in DOMAIN t : t[r].root}

\* d is n or a descendant of n within one branch of the forest
Connected(t, n, d) ==
  /\ IsPrefix(n, d)
  /\ \A k \in (Len(n) + 1)..Len(d) :
       /\ SubSeq(d, 1, k) \in DOMAIN t
       /\ ~t[SubSeq(d, 1, k)].root

\* the path fragment parseDoc hands over: the nodes of generations
\* start..Gen(rev) on the way to rev, ancestors marked missing
Fragment(rev, start, deleted) ==
  [r \in {SubSeq(rev, 1, k) : k \in start..Len(rev)} |->
     [status |-> IF r = rev
                 THEN (IF deleted THEN "deleted" ELSE "available")
                 ELSE "missing",
      root |-> (Len(r) = start)]]

\* nodes further than revsLimit generations above every leaf below them
Stemmed(t, revsLimit) ==
  {n \in DOMAIN t :
     \A l \in Leaves(t) : Connected(t, n, l) => Len(l) - Len(n) >= revsLimit}

\* stemming keeps the shape: the pruned nodes stay, marked missing
stem(t, stemmedRevs) ==
  [r \in DOMAIN t |->
     IF r \in stemmedRevs THEN [t[r] EXCEPT !.status = "missing"] ELSE t[r]]

\* the parent/child steps of the fragment at which it leaves the forest
AttachPoints(t, f) ==
  {c \in DOMAIN f : /\ c \notin DOMAIN t
                    /\ ~f[c].root
                    /\ Parent(c) \in DOMAIN t}

Classify(t, points) ==
  IF DOMAIN t = {} THEN "new_leaf"
  ELSE IF points = {} THEN "internal_node"
  ELSE IF Children(t, Parent(MinRev(points))) = {} THEN "new_leaf"
  ELSE "new_branch"

Spliced(t, f) ==
  [r \in (DOMAIN t) \cup (DOMAIN f) |->
     [status |-> IF r \in DOMAIN t /\ (r \notin DOMAIN f \/ t[r].status # "missing")
                 THEN t[r].status
                 ELSE f[r].status,
      root |-> IF r \in DOMAIN f /\ ~f[r].root THEN FALSE
               ELSE IF r \in DOMAIN t THEN t[r].root
               ELSE TRUE]]

MergeResult(spliced, stemmedRevs, conflicts) ==
  [tree |-> stem(spliced, stemmedRevs),
   stemmedRevs |-> stemmedRevs,
   conflicts |-> conflicts]

MergeSpliced(t, f, spliced, revsLimit) ==
  MergeResult(spliced, Stemmed(spliced, revsLimit), Classify(t, AttachPoints(t, f)))

merge(t, f, revsLimit) == MergeSpliced(t, f, Spliced(t, f), revsLimit)

IsDeletedLeaf(t, r) == t[r].status = "deleted"

PickWinner(live, leaves) == IF live # {} THEN MaxRev(live) ELSE MaxRev(leaves)

WinnerAmong(t, leaves) ==
  PickWinner({l \in leaves : ~IsDeletedLeaf(t, l)}, leaves)

calculateWinningRev(t) == WinnerAmong(t, Leaves(t))

\* ------------------------------------------------------------- documents
\* JavaScript reads of a property that the object may not have
DeletedOf(rec) == IF "deleted" \in DOMAIN rec THEN rec.deleted = 1 ELSE FALSE

ErrorResult(kind) == [kind |-> kind, id |-> "", rev |-> NoRev]
EmptySlot == ErrorResult("empty")
OkResult(id, rev) == [kind |-> "ok", id |-> id, rev |-> rev]

\* the external parser: a raw document is malformed, or yields the
\* metadata (id, rev, rev_tree fragment, deleted) and the body
parseDoc(raw) ==
  IF raw.malformed
  THEN [error |-> TRUE]
  ELSE [error |-> FALSE,
        metadata |-> [id |-> raw.id,
                      rev |-> raw.rev,
                      rev_tree |-> Fragment(raw.rev, raw.start, raw.deleted),
                      deleted |-> raw.deleted],
        data |-> raw.data]

convertDocFormat(parsed) ==
  [id |-> parsed.metadata.id,
   rev |-> parsed.metadata.rev,
   rev_tree |-> parsed.metadata.rev_tree,
   revs |-> (parsed.metadata.rev :>
               [data |-> parsed.data, deleted |-> parsed.metadata.deleted])]

rootIsMissing(rev_tree) == rev_tree[MinRev(Roots(rev_tree))].status = "missing"

\* the first write after a deletion is left as the root it came as
NotReattached(doc, oldDoc) == doc

\* the body of a first write after a deletion, parsed again as an edit of
\* the deleted winner
Reattached(doc, oldDoc) ==
  convertDocFormat(parseDoc(
    [malformed |-> FALSE,
     id |-> oldDoc.id,
     rev |-> Append(oldDoc.rev, doc.rev[Len(doc.rev)]),
     start |-> Len(oldDoc.rev),
     deleted |-> FALSE,
     data |-> doc.revs[doc.rev].data]))

\* the conflict policy applied in replication mode too
inConflictAnyMode(opts, oldDoc, doc, conflicts) ==
  \/ (DeletedOf(oldDoc) /\ DeletedOf(doc))
  \/ (~DeletedOf(oldDoc) /\ conflicts # "new_leaf")
  \/ (DeletedOf(oldDoc) /\ ~DeletedOf(doc) /\ conflicts = "new_branch")

inConflict(opts, oldDoc, doc, conflicts) ==
  opts.new_edits /\
    (\/ (DeletedOf(oldDoc) /\ DeletedOf(doc))
     \/ (~DeletedOf(oldDoc) /\ conflicts # "new_leaf")
     \/ (DeletedOf(oldDoc) /\ ~DeletedOf(doc) /\ conflicts = "new_branch"))

\* lines 148-161, after the merge of line 144.  oldRevs is oldDoc.revs,
\* which line 150 has changed in place; callerDoc is the doc object of the
\* caller, which lines 145-151 changed unless line 141 replaced doc
UpdateMerged(doc, oldDoc, opts, reattach, doc1, merged) ==
  [ret |-> IF inConflict(opts, oldDoc, doc1, merged.conflicts)
           THEN "error" ELSE "doc",
   doc |-> [id |-> doc1.id, rev |-> doc1.rev, rev_tree |-> merged.tree,
            revs |-> (doc1.rev :> doc1.revs[doc1.rev]) @@ oldDoc.revs,
            stemmedRevs |-> merged.stemmedRevs],
   reattach |-> reattach,
   conflicts |-> merged.conflicts,
   callerTree |-> IF reattach THEN doc.rev_tree ELSE merged.tree,
   oldRevs |-> (doc1.rev :> doc1.revs[doc1.rev]) @@ oldDoc.revs]

\* lines 144-146
UpdateDoc(doc, oldDoc, opts, revsLimit, reattach, doc1) ==
  UpdateMerged(doc, oldDoc, opts, reattach, doc1,
               merge(oldDoc.rev_tree, doc1.rev_tree, revsLimit))

\* lines 134-142
UpdateNew(doc, oldDoc, opts, revsLimit, reattach) ==
  UpdateDoc(doc, oldDoc, opts, revsLimit, reattach,
            IF reattach THEN Reattached(doc, oldDoc) ELSE doc)

update(doc, oldDoc, opts, revsLimit) ==
  IF doc.rev \in DOMAIN oldDoc.revs
  THEN [ret |-> "false"]
  ELSE UpdateNew(doc, oldDoc, opts, revsLimit,
                 /\ DeletedOf(oldDoc)
                 /\ ~DeletedOf(doc)
                 /\ opts.new_edits
                 /\ Len(doc.rev) = 1)

\* the record gets the seq before the increment
WriteWinnerPostIncrement(doc, seqNo, winningRev) ==
  [id |-> doc.id,
   rev |-> winningRev,
   rev_tree |-> doc.rev_tree,
   revs |-> [r \in (DOMAIN doc.revs) \ doc.stemmedRevs |->
               IF r = winningRev /\ doc.revs[r].data.att # "none"
               THEN [doc.revs[r] EXCEPT !.data.att = "stub"]
               ELSE doc.revs[r]],
   data |-> IF doc.revs[winningRev].data.att # "none"
            THEN [doc.revs[winningRev].data EXCEPT !.att = "stub"]
            ELSE doc.revs[winningRev].data,
   deleted |-> IF doc.revs[winningRev].deleted THEN 1 ELSE 0,
   seq |-> seqNo - 1,
   attachments |-> doc.revs[winningRev].data.att]

\* lines 168-204, given the winner of line 167
WriteWinner(doc, seqNo, winningRev) ==
  [id |-> doc.id,
   rev |-> winningRev,
   rev_tree |-> doc.rev_tree,
   revs |-> [r \in (DOMAIN doc.revs) \ doc.stemmedRevs |->
               IF r = winningRev /\ doc.revs[r].data.att # "none"
               THEN [doc.revs[r] EXCEPT !.data.att = "stub"]
               ELSE doc.revs[r]],
   data |-> IF doc.revs[winningRev].data.att # "none"
            THEN [doc.revs[winningRev].data EXCEPT !.att = "stub"]
            ELSE doc.revs[winningRev].data,
   deleted |-> IF doc.revs[winningRev].deleted THEN 1 ELSE 0,
   seq |-> seqNo,
   attachments |-> doc.revs[winningRev].data.att]

\* the submitted revision is taken for the winner
writeSubmitted(doc, seqNo) == WriteWinner(doc, seqNo, doc.rev)

write(doc, seqNo) == WriteWinner(doc, seqNo, calculateWinningRev(doc.rev_tree))

\* ------------------------------------------------------------------ state
VARIABLES
  store,      \* DOC_STORE as committed: id -> record
  metaSeq,    \* api.metaData.seq
  revsLimit,  \* api.metaData.revsLimit || 1000
  calls,      \* number of bulkDocs calls made so far
  submitted,  \* number of documents handed to bulkDocs so far
  pc,         \* where the call in flight stands
  opts,       \* its options
  req,        \* its raw input documents
  docs,       \* the parsed documents (line 27)
  pending,    \* indexes whose attachment digest has not resolved yet
  fetched,    \* fetchExistingDocs' counter (line 48)
  oldDocs,    \* fetchExistingDocs' map (line 49), later processDocs' view
  results,    \* the results array (line 26)
  puts,       \* put requests whose onsuccess has not fired yet
  txn,        \* the transaction of the latest call: "none" before the
              \* first call, then "active", "committed" or "aborted"
  txnView,    \* DOC_STORE as the transaction sees it
  handlers,   \* whether onabort/ontimeout/oncomplete are attached
  outcome,    \* the callback invocations of the call, in order, each with
              \* the number of notifications made before it
  notified,   \* the idbChanges.notify invocations of the call
  log,        \* what processDocs decided for each index
  accepted    \* <<id, rev>> of the edits acknowledged by the calls
              \* before the latest one

vars == <<store, metaSeq, revsLimit, calls, submitted, pc, opts, req, docs, pending,
          fetched, oldDocs, results, puts, txn, txnView, handlers, outcome,
          notified, log, accepted>>

NoLog == [outcome |-> "none", prior |-> FALSE, oldDeleted |-> FALSE,
          newDeleted |-> FALSE, conflicts |-> "none", reattach |-> FALSE,
          rootMissing |-> FALSE, seq |-> 0]

\* ------------------------------------------------------------ processDocs
\* processDocs works on st = [oldDocs, seq, results, puts, log]

LogEntry(kind, prior, oldDeleted, doc, conflicts, reattach, rootMissing, seqNo) ==
  [outcome |-> kind, prior |-> prior, oldDeleted |-> oldDeleted,
   newDeleted |-> doc.revs[doc.rev].deleted, conflicts |-> conflicts,
   reattach |-> reattach, rootMissing |-> rootMissing, seq |-> seqNo]

\* lines 99-100
Reject(st, i, kind, entry) ==
  [st EXCEPT !.results[i] = ErrorResult(kind), !.log[i] = entry]

\* lines 102-103, up to the put request of line 198
Accept(st, i, written, entry) ==
  [oldDocs |-> (written.id :> written) @@ st.oldDocs,
   seq |-> written.seq,
   results |-> st.results,
   puts |-> Append(st.puts, [i |-> i, doc |-> written]),
   log |-> [st.log EXCEPT ![i] = entry]]

\* lines 72-73 and 95-100
MissingDoc(st, doc, i, rootMissing) ==
  Reject(st, i, IF rootMissing THEN "conflict" ELSE "missing_doc",
         LogEntry(IF rootMissing THEN "conflict" ELSE "missing_doc",
                  FALSE, FALSE, doc, "none", FALSE, rootMissing, 0))

\* lines 85-104
NewDoc(st, doc, i, merged, rootMissing) ==
  IF rootMissing
  THEN Reject(st, i, "conflict",
              LogEntry("conflict", FALSE, FALSE, doc, "none", FALSE, TRUE, 0))
  ELSE Accept(st, i,
              write([id |-> doc.id, rev |-> doc.rev, rev_tree |-> merged.tree,
                     revs |-> doc.revs, stemmedRevs |-> merged.stemmedRevs],
                    st.seq + 1),
              LogEntry("doc", FALSE, FALSE, doc, "none", FALSE, FALSE, st.seq + 1))

\* lines 95-104 after update returned an error or a document; seen is
\* oldDocs with the revs object that update changed in place
Updated(st, seen, doc, i, oldDeleted, upd, rootMissing) ==
  IF rootMissing \/ upd.ret = "error"
  THEN Reject([st EXCEPT !.oldDocs = seen], i, "conflict",
              LogEntry("conflict", TRUE, oldDeleted, doc, upd.conflicts,
                       upd.reattach, rootMissing, 0))
  ELSE Accept([st EXCEPT !.oldDocs = seen], i, write(upd.doc, st.seq + 1),
              LogEntry("doc", TRUE, oldDeleted, doc, upd.conflicts,
                       upd.reattach, FALSE, st.seq + 1))

\* lines 77-82
ExistingDoc(st, doc, i, o, oldDoc, upd) ==
  IF upd.ret = "false"
  THEN [st EXCEPT !.log[i] =
          LogEntry("skip", TRUE, DeletedOf(oldDoc), doc, "none", FALSE, FALSE, 0)]
  ELSE Updated(st, [st.oldDocs EXCEPT ![doc.id].revs = upd.oldRevs], doc, i,
               DeletedOf(oldDoc), upd,
               o.new_edits /\ rootIsMissing(upd.callerTree))

\* one iteration of the forEach of lines 68-105
ProcessDoc(st, doc, i, o, limit) ==
  IF o.was_delete /\ doc.id \notin DOMAIN st.oldDocs
  THEN MissingDoc(st, doc, i, o.new_edits /\ rootIsMissing(doc.rev_tree))
  ELSE IF doc.id \in DOMAIN st.oldDocs
  THEN ExistingDoc(st, doc, i, o, st.oldDocs[doc.id],
                   update(doc, st.oldDocs[doc.id], o, limit))
  ELSE NewDoc(st, doc, i, merge(EmptyTree, doc.rev_tree, limit),
              o.new_edits /\ rootIsMissing(merge(EmptyTree, doc.rev_tree, limit).tree))

RECURSIVE ProcessFrom(_, _, _, _, _)
ProcessFrom(st, ds, i, o, limit) ==
  IF i > Len(ds) THEN st
  ELSE ProcessFrom(ProcessDoc(st, ds[i], i, o, limit), ds, i + 1, o, limit)

\* ----------------------------------------------------------------- inputs
Malformed == [malformed |-> TRUE, id |-> "x", rev |-> <<1>>, start |-> 1,
              deleted |-> FALSE, data |-> [src |-> <<1>>, att |-> "none"]]

\* parseDoc builds the fragment from _rev (new edits: the parent and the
\* new revision) or from _revisions (replication: the whole ancestry)
Starts(rev, new_edits) ==
  IF new_edits
  THEN {IF Len(rev) = 1 THEN 1 ELSE Len(rev) - 1}
  ELSE {1}

WellFormed(raw, o) ==
  /\ raw.start \in Starts(raw.rev, o.new_edits)
  /\ o.was_delete => raw.deleted
  /\ raw.data.att # "none" => (~raw.deleted /\ raw.id = "x")
  /\ raw.data.att \in {"good", "bad"} => raw.rev = <<1>>
  /\ raw.data.att = "stub" => raw.rev = <<1, 1>>
  /\ raw.id = "y" => raw.rev = <<1>>

Options == [new_edits : BOOLEAN, was_delete : BOOLEAN]

RawDocs ==
  [o \in Options |->
     {Malformed} \cup
     {raw \in
        {[malformed |-> FALSE, id |-> id, rev |-> rev, start |-> start,
          deleted |-> deleted, data |-> [src |-> rev, att |-> att]] :
            id \in Ids, rev \in Revisions, start \in {Len(r) : r \in Revisions},
            deleted \in BOOLEAN, att \in AttKinds} :
        WellFormed(raw, o)}]

Batches ==
  [o \in Options |-> UNION {[1..n -> RawDocs[o]] : n \in 1..MaxBatch}]

\* ---------------------------------------------------------------- actions
Init ==
  /\ store = << >>
  /\ metaSeq = 0
  /\ revsLimit = RevsLimit
  /\ calls = 0
  /\ submitted = 0
  /\ pc = "idle"
  /\ opts = [new_edits |-> TRUE, was_delete |-> FALSE]
  /\ req = << >>
  /\ docs = << >>
  /\ pending = {}
  /\ fetched = 0
  /\ oldDocs = << >>
  /\ results = << >>
  /\ puts = << >>
  /\ txn = "none"
  /\ txnView = << >>
  /\ handlers = FALSE
  /\ outcome = << >>
  /\ notified = 0
  /\ log = << >>
  /\ accepted = {}

\* the edits of the call that ended last which it acknowledged under their
\* own revision
Acknowledged ==
  {<<docs[i].id, docs[i].rev>> : i \in {j \in DOMAIN docs :
      results[j].kind = "ok" /\ results[j].rev = docs[j].rev}}

ParseFails(b) == \E i \in DOMAIN b : parseDoc(b[i]).error

\* bulkDocs, lines 20-289: the synchronous part of a call
BulkDocs(b, o) ==
  /\ pc = "idle"
  /\ txn # "active"
  /\ calls < MaxCalls
  /\ submitted + Len(b) <= MaxDocs
  /\ calls' = calls + 1
  /\ submitted' = submitted + Len(b)
  /\ opts' = o
  /\ req' = b
  /\ txn' = "active"
  /\ txnView' = store
  /\ results' = [i \in DOMAIN b |-> EmptySlot]
  /\ log' = [i \in DOMAIN b |-> NoLog]
  /\ fetched' = 0
  /\ oldDocs' = << >>
  /\ puts' = << >>
  /\ notified' = 0
  /\ IF ParseFails(b)
     THEN /\ outcome' = <<[error |-> "parse", results |-> << >>, queued |-> 0,
                           notified |-> 0]>>
          /\ docs' = << >>
          /\ pending' = {}
          /\ handlers' = FALSE
          /\ pc' = "idle"
     ELSE /\ outcome' = << >>
          /\ docs' = [i \in DOMAIN b |-> convertDocFormat(parseDoc(b[i]))]
          /\ pending' = {i \in DOMAIN b : b[i].data.att \in {"good", "bad"}}
          /\ handlers' = TRUE
          /\ pc' = "attach"
  /\ accepted' = accepted \cup Acknowledged
  /\ UNCHANGED <<store, metaSeq, revsLimit>>

Call == \E o \in Options : \E b \in Batches[o] : BulkDocs(b, o)

SetAtt(ds, i, att) ==
  [ds EXCEPT ![i].revs[ds[i].rev].data.att = att]

\* preProcessAttachment, lines 207-221: the digest of attachment i resolves
DigestDone(i) ==
  /\ pc = "attach"
  /\ i \in pending
  /\ pending' = pending \ {i}
  /\ docs' = SetAtt(docs, i, IF req[i].data.att = "good" THEN "full" ELSE "junk")
  /\ UNCHANGED <<store, metaSeq, revsLimit, calls, submitted, pc, opts, req, fetched,
                 oldDocs, results, puts, txn, txnView, handlers, outcome,
                 notified, log, accepted>>

\* parseBase64 handed an error object on: the binary conversion or the
\* digest fails and the promise chain of line 285 never reaches processDocs
DigestFails(i) ==
  /\ pc = "attach"
  /\ i \in pending
  /\ req[i].data.att = "bad"
  /\ pc' = "failed"
  /\ pending' = pending \ {i}
  /\ UNCHANGED <<store, metaSeq, revsLimit, calls, submitted, opts, req, docs, fetched,
                 oldDocs, results, puts, txn, txnView, handlers, outcome,
                 notified, log, accepted>>

\* the gets are issued without waiting for the attachments
fetchWithoutBarrier ==
  /\ pc = "attach"
  /\ pc' = "fetch"
  /\ UNCHANGED <<store, metaSeq, revsLimit, calls, submitted, opts, req, docs, pending,
                 fetched, oldDocs, results, puts, txn, txnView, handlers,
                 outcome, notified, log, accepted>>

\* lines 285-287: every attachment is processed, the gets are issued
fetchExistingDocs ==
  /\ pc = "attach"
  /\ pending = {}
  /\ pc' = "fetch"
  /\ UNCHANGED <<store, metaSeq, revsLimit, calls, submitted, opts, req, docs, pending,
                 fetched, oldDocs, results, puts, txn, txnView, handlers,
                 outcome, notified, log, accepted>>

\* readDone, lines 51-58
readDone ==
  /\ pc = "fetch"
  /\ LET id == docs[fetched + 1].id
     IN  oldDocs' = IF id \in DOMAIN txnView
                    THEN (id :> txnView[id]) @@ oldDocs
                    ELSE oldDocs
  /\ fetched' = fetched + 1
  /\ pc' = IF fetched + 1 = Len(docs) THEN "process" ELSE "fetch"
  /\ UNCHANGED <<store, metaSeq, revsLimit, calls, submitted, opts, req, docs, pending,
                 results, puts, txn, txnView, handlers, outcome, notified,
                 log, accepted>>

\* processDocs, lines 66-106
processDocs ==
  /\ pc = "process"
  /\ LET st == ProcessFrom([oldDocs |-> oldDocs, seq |-> metaSeq,
                            results |-> results, puts |-> << >>, log |-> log],
                           docs, 1, opts, revsLimit)
     IN  /\ oldDocs' = st.oldDocs
         /\ metaSeq' = st.seq
         /\ results' = st.results
         /\ puts' = st.puts
         /\ log' = st.log
  /\ pc' = "put"
  /\ UNCHANGED <<store, revsLimit, calls, submitted, opts, req, docs, pending, fetched,
                 txn, txnView, handlers, outcome, notified, accepted>>

\* the onsuccess of the oldest put, lines 198-204
putSuccess ==
  /\ pc = "put"
  /\ puts # << >>
  /\ txnView' = (Head(puts).doc.id :> Head(puts).doc) @@ txnView
  /\ results' = [results EXCEPT
                   ![Head(puts).i] = OkResult(Head(puts).doc.id, Head(puts).doc.rev)]
  /\ puts' = Tail(puts)
  /\ UNCHANGED <<store, metaSeq, revsLimit, calls, submitted, pc, opts, req, docs,
                 pending, fetched, oldDocs, txn, handlers, outcome, notified,
                 log, accepted>>

\* the documents of the call that have been handed to put
Queued == Cardinality({i \in DOMAIN log : log[i].seq > 0})

\* the complete handler calls back before it notifies the listener
oncompleteCallbackFirst ==
  /\ txn = "active"
  /\ handlers
  /\ (pc = "put" /\ puts = << >>) \/ pc = "failed"
  /\ store' = txnView
  /\ txn' = "committed"
  /\ notified' = notified + 1
  /\ outcome' = Append(outcome, [error |-> "none", results |-> results,
                                  queued |-> Queued, notified |-> notified])
  /\ pc' = "idle"
  /\ UNCHANGED <<metaSeq, revsLimit, calls, submitted, opts, req, docs, pending, fetched,
                 oldDocs, results, puts, txnView, handlers, log, accepted>>

\* txn.oncomplete, lines 280-283: nothing is left to do in the transaction
oncomplete ==
  /\ txn = "active"
  /\ handlers
  /\ (pc = "put" /\ puts = << >>) \/ pc = "failed"
  /\ store' = txnView
  /\ txn' = "committed"
  /\ notified' = notified + 1
  /\ outcome' = Append(outcome, [error |-> "none", results |-> results,
                                  queued |-> Queued, notified |-> notified + 1])
  /\ pc' = "idle"
  /\ UNCHANGED <<metaSeq, revsLimit, calls, submitted, opts, req, docs, pending, fetched,
                 oldDocs, results, puts, txnView, handlers, log, accepted>>

\* idbError of ./util: the handler it returns hands the callback one error
\* and nothing else
idbError(queued) ==
  [error |-> "idb", results |-> << >>, queued |-> queued, notified |-> notified]

\* the abort handler hands the results over as oncomplete does
onabortDelivers ==
  /\ txn = "active"
  /\ handlers
  /\ pc \in {"attach", "fetch", "process", "put", "failed"}
  /\ txn' = "aborted"
  /\ txnView' = store
  /\ outcome' = Append(outcome, [error |-> "none", results |-> results,
                                  queued |-> Queued, notified |-> notified])
  /\ pc' = "idle"
  /\ UNCHANGED <<store, metaSeq, revsLimit, calls, submitted, opts, req, docs,
                 pending, fetched, oldDocs, results, puts, handlers, notified,
                 log, accepted>>

\* txn.onabort / txn.ontimeout, lines 277-278; the backend discards what
\* the transaction wrote, and nothing of the call's closure is used again
onabort ==
  /\ txn = "active"
  /\ handlers
  /\ pc \in {"attach", "fetch", "process", "put", "failed"}
  /\ txn' = "aborted"
  /\ txnView' = store
  /\ outcome' = Append(outcome, idbError(Queued))
  /\ pc' = "idle"
  /\ docs' = << >>
  /\ pending' = {}
  /\ fetched' = 0
  /\ oldDocs' = << >>
  /\ results' = << >>
  /\ puts' = << >>
  /\ log' = << >>
  /\ UNCHANGED <<store, metaSeq, revsLimit, calls, submitted, opts, req, handlers,
                 notified, accepted>>

\* getAttachment.js, lines 5-13: what the callback is handed for the
\* attachment of document docId, read from the committed store
getAttachment(docId) ==
  IF docId \notin DOMAIN store THEN "throws"
  ELSE CASE store[docId].attachments = "none" -> "throws"
         [] store[docId].attachments = "stub" -> "undefined"
         [] store[docId].attachments = "full" -> "payload"
         [] store[docId].attachments = "junk" -> "junk"

\* the transaction of a call that returned at line 257 has no handler and
\* no request: the backend ends it on its own
idleTxnEnds ==
  /\ txn = "active"
  /\ ~handlers
  /\ txn' = "committed"
  /\ UNCHANGED <<store, metaSeq, revsLimit, calls, submitted, pc, opts, req, docs,
                 pending, fetched, oldDocs, results, puts, txnView, handlers,
                 outcome, notified, log, accepted>>

Next ==
  \/ Call
  \/ \E i \in DOMAIN docs : DigestDone(i)
  \/ \E i \in DOMAIN docs : DigestFails(i)
  \/ fetchExistingDocs
  \/ readDone
  \/ processDocs
  \/ putSuccess
  \/ oncomplete
  \/ onabort
  \/ idleTxnEnds

Spec == Init /\ [][Next]_vars

\* ----------------------------------------------------------------- claims
\* the calls whose callback received a results sequence
Delivered == {k \in DOMAIN outcome : outcome[k].error = "none"}

\* every attachment of the call decodes
Decodable == \A i \in DOMAIN req : req[i].data.att # "bad"

\* index i was resolved against a prior record that did not hold its revision
Resolved(i) == log[i].outcome \notin {"none", "skip"}

DoubleDeletion(i) == log[i].oldDeleted /\ log[i].newDeleted
NotNewLeaf(i) == ~log[i].oldDeleted /\ log[i].conflicts # "new_leaf"
BranchAfterDeletion(i) ==
  log[i].oldDeleted /\ ~log[i].newDeleted /\ log[i].conflicts = "new_branch"

\* C1: a delivered results sequence has one populated entry per input
\* document, entry i describing input document i (stated for the calls
\* whose attachments all decode)
C1_ResultsComplete ==
  \A k \in Delivered :
    Decodable =>
      \A i \in DOMAIN req :
        /\ outcome[k].results[i].kind # "empty"
        /\ outcome[k].results[i].kind = "ok" => outcome[k].results[i].id = req[i].id

\* C2: an edit acknowledged by an earlier call and submitted again gets
\* {ok, id, rev} with the same rev, and nothing is written and no seq is
\* taken for it
C2_Resubmission ==
  \A k \in Delivered :
    \A i \in DOMAIN req :
      (Decodable /\ <<req[i].id, req[i].rev>> \in accepted) =>
        /\ outcome[k].results[i] = OkResult(req[i].id, req[i].rev)
        /\ log[i].outcome = "skip"
        /\ log[i].seq = 0

\* C3: in new-edit mode an unrecorded revision resolved against a prior
\* record is rejected with a conflict when both winners are deletions, when
\* the prior winner is live and the merge is not new_leaf, or when the prior
\* winner is deleted, the revision is not and the merge is new_branch
C3_Rejects ==
  \A i \in DOMAIN log :
    (/\ opts.new_edits
     /\ log[i].prior
     /\ Resolved(i)
     /\ (DoubleDeletion(i) \/ NotNewLeaf(i) \/ BranchAfterDeletion(i)))
    => results[i].kind = "conflict"

\* C4: in new-edit mode an unrecorded revision resolved against a prior
\* record is accepted when none of the three rejection cases applies,
\* whatever the status markers of the revision tree (stated for the edits
\* that extend a live prior winner as new_leaf)
C4_Accepts ==
  \A i \in DOMAIN log :
    (/\ opts.new_edits
     /\ log[i].prior
     /\ Resolved(i)
     /\ ~log[i].oldDeleted
     /\ log[i].conflicts = "new_leaf")
    => /\ log[i].outcome = "doc"
       /\ results[i].kind \in {"empty", "ok"}

\* index i has been handed to put
Put(i) == (\E k \in DOMAIN puts : puts[k].i = i) \/ results[i].kind = "ok"

\* C5 as stated: in replication mode no document is rejected with a
\* conflict and every unrecorded revision is merged and written
C5_Original ==
  \A i \in DOMAIN log :
    (~opts.new_edits /\ log[i].outcome # "none") =>
      /\ results[i].kind # "conflict"
      /\ Resolved(i) => Put(i)

\* C5 as amended: in replication mode no document is rejected with a
\* conflict, and every unrecorded revision is merged and written unless a
\* deletion was asked for (was_delete) and the id has no prior record
C5_Replication ==
  \A i \in DOMAIN log :
    (~opts.new_edits /\ log[i].outcome # "none") =>
      /\ results[i].kind # "conflict"
      /\ (Resolved(i) /\ ~(opts.was_delete /\ ~log[i].prior)) => Put(i)

\* a revision that would be a conflict in new-edit mode is written in
\* replication mode
C5_Witness ==
  /\ ~opts.new_edits
  /\ \E i \in DOMAIN log :
       /\ log[i].prior
       /\ NotNewLeaf(i)
       /\ Put(i)

\* C6: with was_delete, a document whose id has no prior record gets a
\* MissingDocError and is not written
C6_MissingDoc ==
  \A i \in DOMAIN log :
    (opts.was_delete /\ log[i].outcome # "none" /\ ~log[i].prior) =>
      /\ results[i].kind = "missing_doc"
      /\ ~Put(i)

\* C7: when a document fails to parse the call delivers that error alone,
\* writes nothing and has opened no transaction
C7_ParseError ==
  (outcome # << >> /\ outcome[1].error = "parse") =>
    /\ Len(outcome) = 1
    /\ puts = << >>
    /\ txn = "none"

\* C8: a document whose attachment does not decode gets an
\* InvalidArgumentError in its slot of the delivered results
C8_BadAttachment ==
  \A k \in Delivered :
    \A i \in DOMAIN req :
      req[i].data.att = "bad" => outcome[k].results[i].kind = "bad_arg"

\* C9: when the transaction aborts the caller receives one fatal error and
\* no results, nothing of the batch is persisted and the change listener is
\* not notified
C9_AbortAtomic ==
  [][(txn = "active" /\ handlers /\ txn' # "active" /\ txn' # "committed") =>
       /\ outcome' = <<[error |-> "idb", results |-> << >>,
                        queued |-> outcome'[1].queued, notified |-> 0]>>
       /\ store' = store
       /\ notified' = 0]_vars

\* a call was aborted after documents had been handed to put
C9_Witness ==
  /\ Len(outcome) = 1
  /\ outcome[1].error = "idb"
  /\ outcome[1].queued > 0

\* C10: the documents accepted by processDocs take the next seq values, one
\* each, in input order; the others take none
C10_SeqOrder ==
  [][(pc = "process" /\ pc' = "put") =>
       /\ metaSeq' = metaSeq + Len(puts')
       /\ \A k \in DOMAIN puts' :
            /\ puts'[k].doc.seq = metaSeq + k
            /\ results'[puts'[k].i].kind = "empty"
            /\ log'[puts'[k].i].outcome = "doc"
            /\ k > 1 => puts'[k - 1].i < puts'[k].i
       /\ \A i \in DOMAIN log' :
            log'[i].outcome # "doc" => ~\E k \in DOMAIN puts' : puts'[k].i = i]_vars

\* two documents of a batch have been accepted
C10_Witness == pc = "put" /\ Len(puts) = 2

\* C11: the sequence counter changes only inside a batch's transaction and
\* only upwards, and a batch whose transaction aborts leaves the counter as
\* it found it
C11_SeqCounter ==
  [][/\ metaSeq' # metaSeq =>
          (txn = "active" /\ txn' = "active" /\ metaSeq' > metaSeq)
     /\ (txn = "active" /\ handlers /\ txn' = "aborted") =>
          metaSeq' = metaSeq - Queued]_vars

\* index i was rejected with a per-document error
Rejected(i) == log[i].outcome \in {"conflict", "missing_doc"}

\* no document of the batch with the id of index i was accepted
NoneAccepted(i) ==
  \A j \in DOMAIN log : docs[j].id = docs[i].id => log[j].outcome # "doc"

\* C12: after a document is rejected the prior record held for its id is
\* exactly what it was before the batch (stated for the ids of which the
\* batch accepted no document)
C12_RejectionFrame ==
  pc = "put" =>
    \A i \in DOMAIN log :
      (Rejected(i) /\ NoneAccepted(i)) =>
        IF docs[i].id \in DOMAIN store
        THEN /\ docs[i].id \in DOMAIN oldDocs
             /\ oldDocs[docs[i].id] = store[docs[i].id]
        ELSE docs[i].id \notin DOMAIN oldDocs

\* the earlier documents of the batch with the id of document i
Earlier(i) == {j \in 1..(i - 1) : docs[j].id = docs[i].id}

\* the last of them that processDocs accepts in this step
LastAccepted(i) ==
  LET acc == {j \in Earlier(i) : log'[j].outcome = "doc"}
  IN  IF acc = {} THEN 0 ELSE CHOOSE j \in acc : \A q \in acc : q <= j

\* the record this step writes for index j
WrittenFor(j) == puts'[CHOOSE k \in DOMAIN puts' : puts'[k].i = j].doc

\* the records document i is to be resolved against: the record produced by
\* the last accepted earlier document of its id, else the fetched ones
Base(i) ==
  IF LastAccepted(i) = 0
  THEN oldDocs
  ELSE (docs[i].id :> WrittenFor(LastAccepted(i))) @@ oldDocs

\* the resolution of document i against Base(i)
Expected(i) ==
  ProcessDoc([oldDocs |-> Base(i), seq |-> 0, results |-> results,
              puts |-> << >>, log |-> log], docs[i], i, opts, revsLimit)

\* C13: a document whose id occurs earlier in the batch is resolved against
\* the record produced by the last earlier accepted document of that id, and
\* against the unchanged prior record if the earlier ones were rejected
C13_BatchOrder ==
  [][(pc = "process" /\ pc' = "put") =>
       \A i \in DOMAIN docs :
         Earlier(i) # {} =>
           /\ results'[i].kind = Expected(i).results[i].kind
           /\ log'[i].outcome = Expected(i).log[i].outcome
           /\ log'[i].conflicts = Expected(i).log[i].conflicts]_vars

\* the winner fields of a record agree with its rev_tree and revs
WinnerInSync(r) ==
  /\ r.rev = calculateWinningRev(r.rev_tree)
  /\ r.rev \in Leaves(r.rev_tree)
  /\ r.rev \in DOMAIN r.revs
  /\ r.data = r.revs[r.rev].data
  /\ r.deleted = (IF r.revs[r.rev].deleted THEN 1 ELSE 0)
  /\ (r.deleted = 1) <=> (r.rev_tree[r.rev].status = "deleted")
  /\ r.deleted = 1 =>
       \A l \in Leaves(r.rev_tree) : r.rev_tree[l].status = "deleted"

\* C14: every persisted record has rev the winner of its own rev_tree and a
\* leaf of it, data the body revs holds for rev, deleted 1 exactly when that
\* revision is a deletion, and a deleted winner only if every leaf is deleted
C14_WinnerInSync == \A id \in DOMAIN store : WinnerInSync(store[id])

\* a record with two leaves, one of them deleted, has been persisted
C14_Witness ==
  \E id \in DOMAIN store :
    /\ Cardinality(Leaves(store[id].rev_tree)) = 2
    /\ \E l \in Leaves(store[id].rev_tree) : store[id].rev_tree[l].status = "deleted"
    /\ store[id].seq > 1

\* document i is a generation-1 revision that its id's fetched record, whose
\* winner is deleted, does not hold, and no earlier document has its id
FreshRootOnDeleted(i) ==
  /\ Earlier(i) = {}
  /\ docs[i].id \in DOMAIN oldDocs
  /\ oldDocs[docs[i].id].deleted = 1
  /\ Len(docs[i].rev) = 1
  /\ docs[i].rev \notin DOMAIN oldDocs[docs[i].id].revs

\* the record written for i holds rev as a child of the prior winner and has
\* the roots of the prior record
Resurrected(i, old, w, rev) ==
  /\ w.rev = rev
  /\ Len(w.rev) = Len(old.rev) + 1
  /\ rev \in DOMAIN w.rev_tree
  /\ ~w.rev_tree[rev].root
  /\ Parent(rev) = old.rev
  /\ Roots(w.rev_tree) = Roots(old.rev_tree)

\* C15: in new-edit mode a fresh generation-1 edit on a record whose winner
\* is deleted is accepted as a child of that winner, one generation above
\* it, and adds no root; in replication mode nothing is re-parented
C15_Resurrection ==
  [][(pc = "process" /\ pc' = "put") =>
       \A i \in DOMAIN docs :
         /\ (opts.new_edits /\ FreshRootOnDeleted(i)) =>
              /\ log'[i].outcome = "doc"
              /\ Resurrected(i, oldDocs[docs[i].id], WrittenFor(i),
                             Append(oldDocs[docs[i].id].rev, docs[i].rev[1]))
         /\ ~opts.new_edits =>
              /\ ~log'[i].reattach
              /\ log'[i].outcome = "doc" =>
                   docs[i].rev \in DOMAIN WrittenFor(i).rev_tree]_vars

\* a first write after a deletion has been re-parented and accepted
C15_Witness ==
  /\ pc = "put"
  /\ \E i \in DOMAIN log :
       /\ Earlier(i) = {}
       /\ log[i].reattach
       /\ log[i].outcome = "doc"
       /\ \E k \in DOMAIN puts : puts[k].i = i /\ Len(puts[k].doc.rev) = 2

\* revs holds a body for every leaf and only for nodes of rev_tree that were
\* not stemmed, and the record carries no stemmedRevs
RevsInSync(r) ==
  /\ DOMAIN r.revs \subseteq DOMAIN r.rev_tree
  /\ \A v \in DOMAIN r.revs : v \in DOMAIN r.rev_tree =>
       r.rev_tree[v].status # "missing"
  /\ Leaves(r.rev_tree) \subseteq DOMAIN r.revs
  /\ "stemmedRevs" \notin DOMAIN r

\* C16: the revs of every persisted record holds bodies only for revisions
\* that are nodes of its rev_tree, were accepted and were not stemmed, holds
\* one for every leaf, and stemmedRevs is not persisted
C16_RevsInSync == \A id \in DOMAIN store : RevsInSync(store[id])

\* the callback invocation this step makes, if it makes one
Delivers == Len(outcome') = Len(outcome) + 1

\* C17: the listener is notified only by the step that commits the
\* transaction, once, and before the results are handed to the caller; a
\* call that ends in a parse error or an abort notifies nobody
C17_NotifyOnCommit ==
  [][/\ notified' > notified =>
          /\ txn = "active" /\ txn' = "committed"
          /\ store' = txnView
          /\ notified = 0 /\ notified' = 1
          /\ Delivers
     /\ (Delivers /\ outcome'[Len(outcome')].error = "none") =>
          /\ txn' = "committed"
          /\ notified' = 1
          /\ outcome'[Len(outcome')].notified = 1
     /\ (Delivers /\ outcome'[Len(outcome')].error # "none") =>
          /\ notified' = 0
          /\ outcome'[Len(outcome')].notified = 0]_vars

\* a call that wrote a document has committed, notified and called back
C17_Witness ==
  /\ txn = "committed"
  /\ notified = 1
  /\ Len(outcome) = 1
  /\ outcome[1].error = "none"
  /\ outcome[1].queued > 0

\* processDocs has looked at some document of the batch
SomeResolved ==
  \/ \E i \in DOMAIN log : log[i].outcome # "none"
  \/ puts # << >>
  \/ \E i \in DOMAIN results : results[i].kind # "empty"

\* C18: no document of the batch is resolved before the processing of every
\* attachment of the batch has completed and the fetch of every document's
\* prior record has returned
C18_Barrier ==
  /\ SomeResolved => (pending = {} /\ fetched = Len(docs))
  /\ pc \in {"process", "put"} => (pending = {} /\ fetched = Len(docs))

\* a batch of two documents, one with an attachment, has been resolved
C18_Witness ==
  /\ pc = "put"
  /\ Len(docs) = 2
  /\ SomeResolved
  /\ \E i \in DOMAIN req : req[i].data.att = "good"

\* an accepted revision other than the winner came with the attachment
PayloadWritten(r) ==
  \E v \in DOMAIN r.revs :
    /\ v # r.rev
    /\ r.revs[v].data.src = <<1>>
    /\ r.revs[v].data.att # "none"

\* C19: the attachment of a persisted body is a stub, and when an earlier
\* accepted revision wrote its payload, getAttachment still returns the
\* payload after a later accepted write that carries the stub
C19_RoundTrip ==
  \A id \in DOMAIN store :
    store[id].data.att # "none" =>
      /\ store[id].data.att = "stub"
      /\ PayloadWritten(store[id]) => getAttachment(id) = "payload"

\* C20: the callback of a call is invoked at most once, and it is handed a
\* results sequence only after every document of the batch has been resolved
\* and every put that was queued has succeeded
C20_CallbackOnce ==
  /\ Len(outcome) <= 1
  /\ \A k \in Delivered :
       /\ puts = << >>
       /\ \A i \in DOMAIN req :
            /\ log[i].outcome # "none"
            /\ log[i].outcome = "doc" => outcome[k].results[i].kind = "ok"

====
